---- MODULE Spec2Model ----
(***************************************************************************)
(* A model of the scoring / verification oracle of testilias (TiltR):      *)
(*   - data/result.py          Result, MaybeDecimal and Result.check_against*)
(*   - questions/matching.py   MatchingQuestion and its maximum scores      *)
(*   - questions/cloze.py      ClozeQuestion and its gap scoring            *)
(* Texts are sequences of one-character strings, so that parsing,          *)
(* re-serialising and case folding are computed and not assumed.           *)
(* Scores are whole numbers (the Decimal scores of the examples).          *)
(***************************************************************************)
EXTENDS Integers, Sequences, FiniteSets, TLC

VARIABLES
    \* ---- data/result.py: the two Result objects of one comparison
    properties,        \* side -> (key -> text)            Result.properties
    types,             \* side -> (key -> kind)            Result.types
    errors,            \* side -> set of error domains     Result.errors (its keys)
    origin,            \* side -> origin                   Result.origin
    r_call,            \* the last call on the Results and what it returned
    \* ---- questions/matching.py: one MatchingQuestion
    definitions,       \* definition id -> label           MatchingQuestion.definitions
    terms,             \* term id -> label                 MatchingQuestion.terms
    scores,            \* (definition, term) -> score      MatchingQuestion.scores
    multiplicity,      \* MatchingQuestion.multiplicity
    m_call,            \* the last call on the question and what it returned
    \* ---- questions/cloze.py: one ClozeQuestion
    gaps,              \* index -> gap                     ClozeQuestion.gaps
    identical_scoring, \* ClozeQuestion.identical_scoring
    comparator,        \* ClozeQuestion.comparator
    c_call             \* the last call on the question and what it returned

resultVars == <<properties, types, errors, origin, r_call>>
matchingVars == <<definitions, terms, scores, multiplicity, m_call>>
clozeVars == <<gaps, identical_scoring, comparator, c_call>>
vars == <<properties, types, errors, origin, r_call,
          definitions, terms, scores, multiplicity, m_call,
          gaps, identical_scoring, comparator, c_call>>

(***************************************************************************)
(* Texts                                                                   *)
(***************************************************************************)
DigitChars == <<"0", "1", "2", "3", "4", "5", "6", "7", "8", "9">>

IsDigit(c) == \E i \in 1..Len(DigitChars) : DigitChars[i] = c

DigitValue(c) == (CHOOSE i \in 1..Len(DigitChars) : DigitChars[i] = c) - 1

LowerChars == <<"a", "b", "c">>

UpperChars == <<"A", "B", "C">>

IsLetter(c) == \E i \in 1..Len(LowerChars) : LowerChars[i] = c \/ UpperChars[i] = c

\* str.casefold on one character
casefold_char(c) ==
    IF \E i \in 1..Len(UpperChars) : UpperChars[i] = c
    THEN LowerChars[CHOOSE i \in 1..Len(UpperChars) : UpperChars[i] = c]
    ELSE c

\* str.casefold
casefold(text) == [i \in 1..Len(text) |-> casefold_char(text[i])]

RECURSIVE SkipSpaces(_, _)
SkipSpaces(s, i) == IF i <= Len(s) /\ s[i] = " " THEN SkipSpaces(s, i + 1) ELSE i

RECURSIVE SkipDigits(_, _)
SkipDigits(s, i) == IF i <= Len(s) /\ IsDigit(s[i]) THEN SkipDigits(s, i + 1) ELSE i

RECURSIVE SkipLetters(_, _)
SkipLetters(s, i) == IF i <= Len(s) /\ IsLetter(s[i]) THEN SkipLetters(s, i + 1) ELSE i

RECURSIVE Pow10(_)
Pow10(n) == IF n <= 0 THEN 1 ELSE 10 * Pow10(n - 1)

RECURSIVE DigitsToNat(_, _, _)
\* the number written by the digits s[i..j-1], skipping a decimal point
DigitsToNat(s, i, j) ==
    IF j <= i THEN 0
    ELSE IF s[j - 1] = "." THEN DigitsToNat(s, i, j - 1)
    ELSE 10 * DigitsToNat(s, i, j - 1) + DigitValue(s[j - 1])

(***************************************************************************)
(* MaybeDecimal (result.py 26-58).  A finite decimal is coef * 10^exp;     *)
(* kind tells a finite decimal from the special values NaN and Infinity    *)
(* (coef is then the sign); the invalid state is valid = FALSE.            *)
(***************************************************************************)
InvalidDecimal == [valid |-> FALSE, kind |-> "none", coef |-> 0, exp |-> 0]

W_NaN == <<"N", "a", "N">>

W_Infinity == <<"I", "n", "f", "i", "n", "i", "t", "y">>

\* the decimal written by digits [. digits] [e [sign] digits]: the digits
\* start at b, the integer part ends before c, the fraction before d, and
\* the digits of the exponent are text[f..g-1] (f = g = d without one)
FiniteDecimal(text, neg, b, c, d, f, g) ==
    LET dot == c <= Len(text) /\ text[c] = "."
        fraction == IF dot THEN d - c - 1 ELSE 0
        hasexp == d <= Len(text) /\ text[d] \in {"e", "E"}
        expneg == hasexp /\ d + 1 <= Len(text) /\ text[d + 1] = "-"
        mag == DigitsToNat(text, b, d)
        written == DigitsToNat(text, f, g)
    IN  IF (c - b) + fraction > 0 /\ (hasexp => g > f) /\ SkipSpaces(text, g) = Len(text) + 1
        THEN [valid |-> TRUE, kind |-> "finite",
              coef |-> IF neg THEN 0 - mag ELSE mag,
              exp |-> (IF expneg THEN 0 - written ELSE written) - fraction]
        ELSE InvalidDecimal

\* the parse of a number whose digits start at b and whose integer part
\* ends before c
DecimalNumber(text, neg, b, c) ==
    LET dot == c <= Len(text) /\ text[c] = "."
        d == IF dot THEN SkipDigits(text, c + 1) ELSE c
        hasexp == d <= Len(text) /\ text[d] \in {"e", "E"}
        f == IF hasexp
             THEN (IF d + 1 <= Len(text) /\ text[d + 1] \in {"-", "+"} THEN d + 2 ELSE d + 1)
             ELSE d
    IN  FiniteDecimal(text, neg, b, c, d, f, IF hasexp THEN SkipDigits(text, f) ELSE d)

\* decimal.Decimal(text) for [sign] digits [. digits] [e [sign] digits] and
\* for [sign] NaN and [sign] Infinity, spaces around it stripped; any other
\* text raises InvalidOperation, which MaybeDecimal turns into None
MaybeDecimal(text) ==
    LET a == SkipSpaces(text, 1)
        neg == a <= Len(text) /\ text[a] = "-"
        b == IF a <= Len(text) /\ text[a] \in {"-", "+"} THEN a + 1 ELSE a
        IsWord(w) == /\ b + Len(w) - 1 <= Len(text)
                     /\ SubSeq(text, b, b + Len(w) - 1) = w
                     /\ SkipSpaces(text, b + Len(w)) = Len(text) + 1
    IN  IF IsWord(W_NaN)
        THEN [valid |-> TRUE, kind |-> "NaN", coef |-> IF neg THEN 0 - 1 ELSE 1, exp |-> 0]
        ELSE IF IsWord(W_Infinity)
        THEN [valid |-> TRUE, kind |-> "Infinity", coef |-> IF neg THEN 0 - 1 ELSE 1, exp |-> 0]
        ELSE DecimalNumber(text, neg, b, SkipDigits(text, b))

\* coef of x rescaled to the exponent e (e <= x.exp)
Rescaled(x, e) == x.coef * Pow10(x.exp - e)

AbsInt(n) == IF n < 0 THEN 0 - n ELSE n

MinInt(a, b) == IF a < b THEN a ELSE b

MaxInt(a, b) == IF a > b THEN a ELSE b

RECURSIVE NatToDigits(_)
\* the digits of n >= 0
NatToDigits(n) ==
    IF n < 10 THEN <<DigitChars[n + 1]>>
    ELSE NatToDigits(n \div 10) \o <<DigitChars[(n % 10) + 1]>>

Zeros(n) == [i \in 1..n |-> "0"]

\* str(d) of a Decimal d: plain notation when the exponent is at most 0 and
\* the number is not too small, scientific notation otherwise
DecimalStr(x) ==
    LET sign == IF x.coef < 0 THEN <<"-">> ELSE <<>>
        digits == NatToDigits(AbsInt(x.coef))
        leftdigits == x.exp + Len(digits)
        dotplace == IF x.exp <= 0 /\ leftdigits > 0 - 6 THEN leftdigits ELSE 1
        intpart == IF dotplace <= 0 THEN <<"0">>
                   ELSE IF dotplace >= Len(digits) THEN digits \o Zeros(dotplace - Len(digits))
                   ELSE SubSeq(digits, 1, dotplace)
        fracpart == IF dotplace <= 0 THEN <<".">> \o Zeros(0 - dotplace) \o digits
                    ELSE IF dotplace >= Len(digits) THEN <<>>
                    ELSE <<".">> \o SubSeq(digits, dotplace + 1, Len(digits))
        expo == IF leftdigits = dotplace THEN <<>>
                ELSE <<"E", IF leftdigits > dotplace THEN "+" ELSE "-">>
                     \o NatToDigits(AbsInt(leftdigits - dotplace))
    IN  IF x.kind = "NaN" THEN sign \o W_NaN
        ELSE IF x.kind = "Infinity" THEN sign \o W_Infinity
        ELSE sign \o intpart \o fracpart \o expo

(***************************************************************************)
(* _normalize_json (result.py 86-90): json.dumps(json.loads(s)).           *)
(* The JSON read here is an integer or an object of integer members.       *)
(* json.loads builds a dict, which keeps the order in which the names were *)
(* first inserted; json.dumps writes the dict in that order with ", " and  *)
(* ": " as separators.                                                     *)
(***************************************************************************)
JsonError == [ok |-> FALSE, kind |-> "error", num |-> <<>>, members |-> <<>>, next |-> 0]

\* a JSON integer at s[i]: digits, no leading zero
JsonNumberAt(s, i) ==
    LET j == SkipDigits(s, i)
    IN  IF j > i /\ (s[i] # "0" \/ j = i + 1)
        THEN [ok |-> TRUE, kind |-> "int", num |-> SubSeq(s, i, j - 1), members |-> <<>>, next |-> j]
        ELSE JsonError

\* a JSON string at s[i]: letters between double quotes
JsonStringAt(s, i) ==
    IF i <= Len(s) /\ s[i] = "\""
    THEN LET j == SkipLetters(s, i + 1)
         IN  IF j <= Len(s) /\ s[j] = "\""
             THEN [ok |-> TRUE, kind |-> "str", num |-> SubSeq(s, i + 1, j - 1), members |-> <<>>, next |-> j + 1]
             ELSE JsonError
    ELSE JsonError

RECURSIVE DictSet(_, _, _)
\* d[name] = value on an insertion-ordered dict: a known name keeps its place
DictSet(d, name, value) ==
    IF d = <<>> THEN << <<name, value>> >>
    ELSE IF d[1][1] = name THEN << <<name, value>> >> \o Tail(d)
    ELSE <<d[1]>> \o DictSet(Tail(d), name, value)

RECURSIVE JsonMembersAt(_, _, _)
\* the members of an object from s[i] on (after "{" or ","), added to the dict d
JsonMembersAt(s, i, d) ==
    LET name == JsonStringAt(s, SkipSpaces(s, i))
        colon == SkipSpaces(s, name.next)
        value == JsonNumberAt(s, SkipSpaces(s, colon + 1))
        after == SkipSpaces(s, value.next)
        d2 == DictSet(d, name.num, value.num)
    IN  IF ~name.ok \/ colon > Len(s) \/ s[colon] # ":" THEN JsonError
        ELSE IF ~value.ok \/ after > Len(s) THEN JsonError
        ELSE IF s[after] = "}"
             THEN [ok |-> TRUE, kind |-> "object", num |-> <<>>, members |-> d2, next |-> after + 1]
        ELSE IF s[after] = "," THEN JsonMembersAt(s, after + 1, d2)
        ELSE JsonError

\* json.loads(s); ok = FALSE stands for the ValueError it raises
json_loads(s) ==
    LET i == SkipSpaces(s, 1)
        v == IF i > Len(s) THEN JsonError
             ELSE IF s[i] = "{"
                  THEN IF SkipSpaces(s, i + 1) <= Len(s) /\ s[SkipSpaces(s, i + 1)] = "}"
                       THEN [ok |-> TRUE, kind |-> "object", num |-> <<>>, members |-> <<>>,
                             next |-> SkipSpaces(s, i + 1) + 1]
                       ELSE JsonMembersAt(s, i + 1, <<>>)
                  ELSE JsonNumberAt(s, i)
    IN  IF v.ok /\ SkipSpaces(s, v.next) = Len(s) + 1 THEN v ELSE JsonError

RECURSIVE DumpMembers(_)
DumpMembers(d) ==
    IF d = <<>> THEN <<>>
    ELSE <<"\"">> \o d[1][1] \o <<"\"", ":", " ">> \o d[1][2]
         \o (IF Len(d) > 1 THEN <<",", " ">> ELSE <<>>) \o DumpMembers(Tail(d))

\* json.dumps(v)
json_dumps(v) ==
    IF v.kind = "object" THEN <<"{">> \o DumpMembers(v.members) \o <<"}">> ELSE v.num

IllegalJsonPrefix == <<"-", "i", "l", "l", "e", "g", "a", "l", "-", "j", "s", "o", "n", "-">>

_normalize_json(s) ==
    IF json_loads(s).ok THEN json_dumps(json_loads(s)) ELSE IllegalJsonPrefix \o s

(***************************************************************************)
(* Result (result.py 106-372).  The two sides of a comparison are the      *)
(* Result check_against is called on ("self") and its argument ("other").  *)
(***************************************************************************)
Sides == {"self", "other"}

None == "None"

\* "%s" % None
NoneText == <<"N", "o", "n", "e">>

K_RESULTS == <<"results_tab", "percentage_reached">>

K_STATISTICS == <<"statistics_tab", "percentage_reached">>

K_ANSWER == <<"xls", "answer">>

\* a key of Result.reached_score_keys
K_SCORE == <<"xls", "question", "q1", "score_reached">>

\* a key that begins with a configured prefix and has one more part
K_RESULTS_USER == <<"results_tab", "percentage_reached", "u1">>

\* the keys of the model, in the order sorted() gives them
KeyOrder == <<K_RESULTS, K_RESULTS_USER, K_STATISTICS, K_ANSWER, K_SCORE>>

\* the keys of a comparison with a typed answer
Keys == {K_RESULTS, K_ANSWER}

\* the keys of a comparison of percentages
PercentageKeys == {K_RESULTS, K_RESULTS_USER, K_STATISTICS}

J_AB == <<"{", "\"", "a", "\"", ":", "1", ",", "\"", "b", "\"", ":", "2", "}">>

J_BA == <<"{", "\"", "b", "\"", ":", "2", ",", "\"", "a", "\"", ":", "1", "}">>

J_BAD == <<"{", "\"", "a", "\"", ":">>

P_5000 == <<"5", "0", ".", "0", "0">>

P_5001 == <<"5", "0", ".", "0", "1">>

P_NA == <<"n", "/", "a">>

P_5002 == <<"5", "0", ".", "0", "2">>

\* the largest finite decimals of the default context, 9E+999999 and its negative
P_HUGE == <<"9", "e", "9", "9", "9", "9", "9", "9">>

P_NEGHUGE == <<"-">> \o P_HUGE

\* the values the callers store under a key
ValuesOf(k) == IF k = K_ANSWER THEN {J_AB, J_BA, J_BAD} ELSE {P_5000, P_5001, P_NA}

\* the values stored under a key in a comparison of percentages
PercentageValuesOf(k) ==
    IF k = K_RESULTS THEN {P_5000, P_5001, P_5002, P_NA}
    ELSE IF k = K_RESULTS_USER THEN {P_5000, P_5001}
    ELSE {P_HUGE, P_NEGHUGE}

\* the value_type arguments the callers pass with a key
KindsOf(k) == IF k = K_ANSWER THEN {None, "json", "text"} ELSE {None}

ErrorDomains == {"qa"}

WorkaroundsArgs ==
    [ignore_wrong_results_in_results_tab : BOOLEAN, inaccurate_percentage_rounding : BOOLEAN]

EmptyMap == <<>>

\* d with d[k] = v
DictPut(d, k, v) == [x \in DOMAIN d \cup {k} |-> IF x = k THEN v ELSE d[x]]

\* d with k deleted
DictDel(d, k) == [x \in DOMAIN d \ {k} |-> d[x]]

\* the names of the Origin enum
Origins == {"recorded", "exported"}

\* kwargs.get('origin', 'unknown'): the origin of a Result made without one
UnknownOrigin == "unknown"

\* the pair of Results a run compares: the recorded and the exported one
ComparedOrigins == [s \in Sides |-> IF s = "self" THEN "recorded" ELSE "exported"]

\* Result.__init__ without from_json
ResultInit ==
    /\ properties = [s \in Sides |-> EmptyMap]
    /\ types = [s \in Sides |-> EmptyMap]
    /\ errors = [s \in Sides |-> {}]
    /\ origin = ComparedOrigins
    /\ r_call = [op |-> "init", outcome |-> "ok"]

\* a value argument that is a str
Str(text) == [class |-> "str", text |-> text, d |-> InvalidDecimal]

\* a value argument that is a Decimal
Dec(coef, exp) ==
    [class |-> "Decimal", text |-> <<>>,
     d |-> [valid |-> TRUE, kind |-> "finite", coef |-> coef, exp |-> exp]]

\* lines 214-215 and 222-223: a Decimal is stored as its str
stored_value(value) == IF value.class = "Decimal" THEN DecimalStr(value.d) ELSE value.text

\* add with the assertion after the assignments
AddThenAssert(s, key, value, value_type) ==
    /\ properties' = [properties EXCEPT ![s] = DictPut(@, key, stored_value(value))]
    /\ types' = IF value_type # None
                THEN [types EXCEPT ![s] = DictPut(@, key, value_type)]
                ELSE types
    /\ r_call' = [op |-> "add",
                  outcome |-> IF key \in DOMAIN properties[s] THEN "AssertionError" ELSE "ok"]
    /\ UNCHANGED <<errors, origin>>
    /\ UNCHANGED <<matchingVars, clozeVars>>

\* Result.add
Add(s, key, value, value_type) ==
    /\ IF key \in DOMAIN properties[s]
       THEN /\ r_call' = [op |-> "add", outcome |-> "AssertionError"]
            /\ UNCHANGED <<properties, types, errors, origin>>
       ELSE /\ properties' = [properties EXCEPT ![s] = DictPut(@, key, stored_value(value))]
            /\ types' = IF value_type # None
                        THEN [types EXCEPT ![s] = DictPut(@, key, value_type)]
                        ELSE types
            /\ r_call' = [op |-> "add", outcome |-> "ok"]
            /\ UNCHANGED <<errors, origin>>
    /\ UNCHANGED <<matchingVars, clozeVars>>

\* Result.update
Update(s, key, value) ==
    /\ IF key \notin DOMAIN properties[s]
       THEN /\ r_call' = [op |-> "update", outcome |-> "AssertionError"]
            /\ UNCHANGED <<properties, types, errors, origin>>
       ELSE /\ properties' = [properties EXCEPT ![s] = DictPut(@, key, stored_value(value))]
            /\ r_call' = [op |-> "update", outcome |-> "ok"]
            /\ UNCHANGED <<types, errors, origin>>
    /\ UNCHANGED <<matchingVars, clozeVars>>

\* Result.remove
Remove(s, key) ==
    /\ properties' = IF key \in DOMAIN properties[s]
                     THEN [properties EXCEPT ![s] = DictDel(@, key)]
                     ELSE properties
    /\ r_call' = [op |-> "remove", outcome |-> "ok"]
    /\ UNCHANGED <<types, errors, origin>>
    /\ UNCHANGED <<matchingVars, clozeVars>>

\* Result.from_error: a fresh Result that carries one error
from_error(s, o, domain) ==
    /\ properties' = [properties EXCEPT ![s] = EmptyMap]
    /\ types' = [types EXCEPT ![s] = EmptyMap]
    /\ errors' = [errors EXCEPT ![s] = {domain}]
    /\ origin' = [origin EXCEPT ![s] = o]
    /\ r_call' = [op |-> "from_error", outcome |-> "ok"]
    /\ UNCHANGED <<matchingVars, clozeVars>>

\* Result.get_normalized_properties: every key part through str(); the key
\* parts of this model are strings, which str() returns as they are
get_normalized_properties(s) == properties[s]

\* "%s" % properties.get(k, None)
ValueText(s, k) ==
    IF k \in DOMAIN get_normalized_properties(s) THEN get_normalized_properties(s)[k] ELSE NoneText

\* sorted(list(set(self keys + other keys)))
SortedKeys ==
    SelectSeq(KeyOrder, LAMBDA k : k \in DOMAIN get_normalized_properties("self")
                                     \cup DOMAIN get_normalized_properties("other"))

\* Workarounds.normalize: a text to text transform; here it trims spaces
normalize(text) ==
    LET a == SkipSpaces(text, 1)
        b == CHOOSE j \in 0..Len(text) :
                 /\ \A i \in (j + 1)..Len(text) : text[i] = " "
                 /\ j > 0 => text[j] # " "
    IN  IF a > b THEN <<>> ELSE SubSeq(text, a, b)

\* ignore_key without the workaround flag
IgnoreKeyWithoutFlag(k, w) == k[1] = "results_tab"

ignore_key(k, w) == k[1] = "results_tab" /\ w.ignore_wrong_results_in_results_tab

RECURSIVE NumDigits(_)
\* the number of digits of a coefficient n > 0
NumDigits(n) == IF n < 10 THEN 1 ELSE 1 + NumDigits(n \div 10)

\* the largest adjusted exponent of decimal's default context, under which
\* line 301 computes
Emax == 999999

\* a.to_decimal() - b.to_decimal() on finite decimals raises decimal.Overflow,
\* which line 302 does not catch, when the adjusted exponent of the
\* difference is above Emax; da and db are a and b after lines 294-295
is_close_overflows(da, db) ==
    LET e == MinInt(da.exp, db.exp)
        diff == AbsInt(Rescaled(da, e) - Rescaled(db, e))
    IN  /\ da.valid /\ db.valid
        /\ da.kind = "finite" /\ db.kind = "finite"
        /\ diff # 0
        /\ e + NumDigits(diff) - 1 > Emax

\* make_is_close with eps = Decimal("0.01"), on a and b after lines
\* 294-295.  A NaN operand makes the difference NaN, and NaN <= eps signals
\* InvalidOperation; Infinity minus Infinity signals it too, and any other
\* difference with an Infinity is infinite: with an operand that is not
\* finite is_close returns False.  The decimals of this model have fewer
\* digits than the 28 of the context, so the difference is exact.
is_close(da, db) ==
    LET eps == [valid |-> TRUE, kind |-> "finite", coef |-> 1, exp |-> 0 - 2]
        e == MinInt(da.exp, db.exp)
        diff == AbsInt(Rescaled(da, e) - Rescaled(db, e))
    IN  IF ~da.valid \/ ~db.valid THEN FALSE
        ELSE IF da.kind # "finite" \/ db.kind # "finite" THEN FALSE
        ELSE IF diff = 0 THEN TRUE
        ELSE IF e >= 0 THEN FALSE
        ELSE diff * Pow10(e - MinInt(e, eps.exp)) <= Rescaled(eps, MinInt(e, eps.exp))

is_exactly_equal(a, b) == a = b

\* the keys of the comparators dict
comparators(w) ==
    IF w.inaccurate_percentage_rounding THEN {K_STATISTICS, K_RESULTS} ELSE {}

\* comparators.get(k, is_exactly_equal)(a, b)
is_equal(k, w, a, b) ==
    IF k \in comparators(w) THEN is_close(MaybeDecimal(a), MaybeDecimal(b))
    ELSE is_exactly_equal(a, b)

\* line 320
type_self(k) == IF k \in DOMAIN types["self"] THEN types["self"][k] ELSE None

\* line 321, which reads self.types a second time
type_other(k) == IF k \in DOMAIN types["self"] THEN types["self"][k] ELSE None

\* line 322: the declared kinds of a key, None left out
declared_types(k) == {type_self(k), type_other(k)} \ {None}

\* lines 317-329: the two values of a row as they are compared
value_self(k) ==
    IF declared_types(k) = {"json"} THEN _normalize_json(normalize(ValueText("self", k)))
    ELSE normalize(ValueText("self", k))

value_other(k) ==
    IF declared_types(k) = {"json"} THEN _normalize_json(normalize(ValueText("other", k)))
    ELSE normalize(ValueText("other", k))

\* lines 330-331
raises_incompatible(k) == declared_types(k) # {"json"} /\ Cardinality(declared_types(k)) > 0

\* lines 333-341 on the two values a and b of the row
row_status(k, w, a, b) ==
    IF ignore_key(k, w) THEN "IGNORED"
    ELSE IF is_equal(k, w, a, b) THEN "OK"
    ELSE "FAIL"

\* line 337 calls is_close and the subtraction overflows
raises_overflow(k, w, a, b) ==
    /\ ~ignore_key(k, w)
    /\ k \in comparators(w)
    /\ is_close_overflows(MaybeDecimal(a), MaybeDecimal(b))

RECURSIVE check_loop(_, _, _, _)
RECURSIVE check_row(_, _, _, _, _, _)
\* lines 333-348 for the i-th key, whose values are a and b, and the loop
\* from the next key on
check_row(keys, i, w, acc, a, b) ==
    IF raises_overflow(keys[i], w, a, b)
    THEN [acc EXCEPT !.raised = TRUE, !.exception = "Overflow"]
    ELSE check_loop(keys, i + 1, w,
            [raised |-> FALSE, exception |-> "none",
             all_ok |-> IF row_status(keys[i], w, a, b) = "FAIL" THEN FALSE ELSE acc.all_ok,
             rows |-> DictPut(acc.rows, keys[i], row_status(keys[i], w, a, b))])

\* the loop of lines 316-348 from the i-th key on
check_loop(keys, i, w, acc) ==
    IF i > Len(keys) THEN acc
    ELSE IF raises_incompatible(keys[i])
         THEN [acc EXCEPT !.raised = TRUE, !.exception = "RuntimeError"]
    ELSE check_row(keys, i, w, acc, value_self(keys[i]), value_other(keys[i]))

\* lines 363-366 without lines 367-370: only the errors of self are looked at
ErrorsVerdictSelfOnly(all_ok) ==
    IF errors["self"] # {} THEN FALSE ELSE all_ok

\* lines 363-370
errors_verdict(all_ok) ==
    IF errors["self"] # {} \/ errors["other"] # {} THEN FALSE ELSE all_ok

\* Result.check_against(other, report, workarounds), called on side "self".
\* Line 285 reads origin.name of both Results for the header of the table:
\* an origin that is not a member of Origin has no name
check_against(w) ==
    LET loop == check_loop(SortedKeys, 1, w,
                    [raised |-> FALSE, exception |-> "none", all_ok |-> TRUE, rows |-> EmptyMap])
    IN  IF origin["self"] \notin Origins \/ origin["other"] \notin Origins
        THEN [op |-> "check_against", outcome |-> "AttributeError", workarounds |-> w,
              value |-> FALSE, rows |-> EmptyMap]
        ELSE IF loop.raised
        THEN [op |-> "check_against", outcome |-> loop.exception, workarounds |-> w,
              value |-> FALSE, rows |-> EmptyMap]
        ELSE [op |-> "check_against", outcome |-> "returned", workarounds |-> w,
              value |-> errors_verdict(loop.all_ok), rows |-> loop.rows]

CheckAgainst(w) ==
    /\ r_call' = check_against(w)
    /\ UNCHANGED <<properties, types, errors, origin>>
    /\ UNCHANGED <<matchingVars, clozeVars>>

\* a pair of Results is filled during a run and then compared once
Filling == r_call.op # "check_against"

ResultNext ==
    \/ \E s \in Sides, k \in Keys : \E v \in ValuesOf(k), t \in KindsOf(k) :
           Filling /\ Add(s, k, Str(v), t)
    \/ \E s \in Sides, k \in Keys : \E v \in ValuesOf(k) : Filling /\ Update(s, k, Str(v))
    \/ \E s \in Sides, k \in Keys : Filling /\ Remove(s, k)
    \/ \E s \in Sides, d \in ErrorDomains : Filling /\ from_error(s, origin[s], d)
    \/ \E w \in WorkaroundsArgs : Filling /\ CheckAgainst(w)

\* the same calls on two Results that hold percentages
PercentageNext ==
    \/ \E s \in Sides, k \in PercentageKeys : \E v \in PercentageValuesOf(k) :
           Filling /\ Add(s, k, Str(v), None)
    \/ \E s \in Sides, k \in PercentageKeys : \E v \in PercentageValuesOf(k) :
           Filling /\ Update(s, k, Str(v))
    \/ \E s \in Sides, k \in PercentageKeys : Filling /\ Remove(s, k)
    \/ \E w \in WorkaroundsArgs : Filling /\ CheckAgainst(w)

(***************************************************************************)
(* Result as a store: get, to_json, Result(from_json=...) and the rounding *)
(* helper (result.py 98-103, 127-129, 156-207, 243-244)                    *)
(***************************************************************************)
\* the keys of a Result that is stored and read back
StoreKeys == {K_ANSWER, K_SCORE}

\* the value arguments passed with a key: texts and Decimals
StoreArgsOf(k) ==
    IF k = K_ANSWER THEN {Str(J_AB)}
    ELSE {Str(P_5000), Dec(125, 0 - 1), Dec(5, 1)}

StoreKindsOf(k) == IF k = K_ANSWER THEN {None, "json"} ELSE {None}

\* Result.get: properties.get(key, None); is_none tells the None that is
\* returned for an absent key from a stored text
Get(s, key) ==
    /\ r_call' = [op |-> "get", outcome |-> "ok", side |-> s, key |-> key,
                  is_none |-> key \notin DOMAIN properties[s],
                  value |-> IF key \in DOMAIN properties[s] THEN properties[s][key] ELSE <<>>]
    /\ UNCHANGED <<properties, types, errors, origin>>
    /\ UNCHANGED <<matchingVars, clozeVars>>

\* dict.items() as the list of pairs that json.dumps writes; a key tuple is
\* written as a list
Items(d) == {<<k, d[k]>> : k \in DOMAIN d}

\* dict((tuple(key), value) for key, value in pairs)
DictOf(pairs) == [k \in {p[1] : p \in pairs} |-> (CHOOSE p \in pairs : p[1] = k)[2]]

\* Result.to_json on the properties, types, errors and origin of a Result;
\* origin.name exists for the members of Origin only
to_json(s) ==
    IF origin[s] \notin Origins
    THEN [op |-> "to_json", outcome |-> "AttributeError", side |-> s,
          value |-> [origin |-> None, properties |-> {}, types |-> {}, errors |-> {}]]
    ELSE [op |-> "to_json", outcome |-> "ok", side |-> s,
          value |-> [origin |-> origin[s], properties |-> Items(properties[s]),
                     types |-> Items(types[s]), errors |-> errors[s]]]

ToJson(s) ==
    /\ r_call' = to_json(s)
    /\ UNCHANGED <<properties, types, errors, origin>>
    /\ UNCHANGED <<matchingVars, clozeVars>>

\* Result(from_json=data): the Result of side s is made from the document
\* that to_json has just returned
FromJson(s, data) ==
    /\ origin' = [origin EXCEPT ![s] = data.origin]
    /\ properties' = [properties EXCEPT ![s] = DictOf(data.properties)]
    /\ types' = [types EXCEPT ![s] = DictOf(data.types)]
    /\ errors' = [errors EXCEPT ![s] = data.errors]
    /\ r_call' = [op |-> "from_json", outcome |-> "ok", side |-> s, source |-> r_call.side]
    /\ UNCHANGED <<matchingVars, clozeVars>>

\* the precision of decimal's default context, under which quantize works
Prec == 28

\* the least integer not below c / d, d > 0
CeilDiv(c, d) == 0 - ((0 - c) \div d)

\* the coefficient of x.quantize(Decimal("0.01"), rounding=ROUND_CEILING)
QuantizedCoef(x) ==
    IF x.exp >= 0 - 2 THEN x.coef * Pow10(x.exp + 2)
    ELSE CeilDiv(x.coef, Pow10((0 - 2) - x.exp))

\* quantize signals InvalidOperation for an infinite operand and for a
\* result whose coefficient has more digits than the precision
quantize_raises(x) ==
    \/ x.kind = "Infinity"
    \/ /\ x.kind = "finite"
       /\ x.coef # 0
       /\ IF x.exp >= 0 - 2 THEN NumDigits(AbsInt(x.coef)) + x.exp + 2 > Prec
          ELSE QuantizedCoef(x) # 0 /\ NumDigits(AbsInt(QuantizedCoef(x))) > Prec

\* _round_to_2_digits with ROUND_CEILING, when quantize returns; a NaN
\* stays a NaN
_round_to_2_digits(x) ==
    IF ~x.valid THEN x
    ELSE IF x.kind = "NaN" THEN x
    ELSE [valid |-> TRUE, kind |-> "finite", coef |-> QuantizedCoef(x), exp |-> 0 - 2]

\* the texts of the values that are rounded
RoundTexts ==
    { <<"1", ".", "0", "0", "5">>, <<"1", ".", "0", "0", "1">>, <<"-", "1", ".", "0", "0", "5">>,
      <<"-", "1", ".", "0", "0", "1">>, <<"1">>, P_5001, <<"0", ".", "0", "0", "1">>,
      <<"-", "0", ".", "0", "0", "1">>, <<"5", "E", "+", "1">>, <<"1", "2", ".", "5">>,
      P_NA, <<"1", "e", "3", "0">>, W_NaN, W_Infinity }

\* Result.round_up_to_2_digits
RoundUpTo2Digits(x) ==
    /\ r_call' = IF x.valid /\ quantize_raises(x)
                 THEN [op |-> "round_up_to_2_digits", outcome |-> "InvalidOperation",
                       arg |-> x, value |-> InvalidDecimal]
                 ELSE [op |-> "round_up_to_2_digits", outcome |-> "ok",
                       arg |-> x, value |-> _round_to_2_digits(x)]
    /\ UNCHANGED <<properties, types, errors, origin>>
    /\ UNCHANGED <<matchingVars, clozeVars>>

\* a Result made with or without an origin
StoreInit ==
    /\ properties = [s \in Sides |-> EmptyMap]
    /\ types = [s \in Sides |-> EmptyMap]
    /\ errors = [s \in Sides |-> {}]
    /\ origin \in [Sides -> Origins \cup {UnknownOrigin}]
    /\ r_call = [op |-> "init", outcome |-> "ok"]

StoreNext ==
    \/ \E s \in Sides, k \in StoreKeys : \E v \in StoreArgsOf(k), t \in StoreKindsOf(k) :
           Add(s, k, v, t)
    \/ \E s \in Sides, k \in StoreKeys : \E v \in StoreArgsOf(k) : Update(s, k, v)
    \/ \E s \in Sides, k \in StoreKeys : Remove(s, k)
    \/ \E s \in Sides, k \in StoreKeys : Get(s, k)
    \/ \E s \in Sides : ToJson(s)
    \/ \E s \in Sides :
           r_call.op = "to_json" /\ r_call.outcome = "ok" /\ s # r_call.side
               /\ FromJson(s, r_call.value)
    \/ \E t \in RoundTexts : RoundUpTo2Digits(MaybeDecimal(t))

(***************************************************************************)
(* MatchingQuestion (matching.py).  definitions and terms are the ids the  *)
(* question was parsed with; scores maps some of their pairs to a score.   *)
(***************************************************************************)
Definitions == {"d1", "d2"}

Terms == {"t1", "t2"}

MinScore == 1

MaxScore == 5

\* the scores a pair can be given
ScoreValues == (0 - MinScore)..MaxScore

\* every score table over the known ids
ScoreTables == UNION {[P -> ScoreValues] : P \in SUBSET (Definitions \X Terms)}

Multiplicities == {"ONE_TO_ONE", "MANY_TO_MANY"}

\* the workaround flag of the context argument that get_maximum_score reads
MaximumScoreWorkarounds == [allow_unreachable_max_scores : BOOLEAN]

\* the workaround flag of the context argument that get_random_answer reads
RandomAnswerWorkarounds == [disallow_empty_answers : BOOLEAN]

RECURSIVE SumOver(_, _)
\* the sum of f[x] over the x of S
SumOver(S, f) ==
    IF S = {} THEN 0
    ELSE LET x == CHOOSE y \in S : TRUE IN f[x] + SumOver(S \ {x}, f)

\* max() of a non-empty set of numbers
MaxOf(S) == CHOOSE x \in S : \A y \in S : y <= x

\* scores.get(p, Decimal(0))
ScoreGet(sc, p) == IF p \in DOMAIN sc THEN sc[p] ELSE 0

DefinitionsOf(sc) == {p[1] : p \in DOMAIN sc}

TermsOf(sc) == {p[2] : p \in DOMAIN sc}

\* a sum over the definitions of the lowest pair score of each, floored at 0
OneToOneSimpleMin(sc) ==
    SumOver(DefinitionsOf(sc),
            [d \in DefinitionsOf(sc) |->
                MaxInt(0, 0 - MaxOf({0 - sc[p] : p \in {q \in DOMAIN sc : q[1] = d}}))])

_one_to_one_simple(sc) ==
    SumOver(DefinitionsOf(sc),
            [d \in DefinitionsOf(sc) |->
                MaxOf({0} \cup {sc[p] : p \in {q \in DOMAIN sc : q[1] = d}})])

Injections(A, B) == {f \in [A -> B] : \A x, y \in A : f[x] = f[y] => x = y}

\* scipy.optimize.linear_sum_assignment on a cost matrix with the rows R and
\* the columns C: min(|R|, |C|) cells, no two in one row or one column, of
\* the least total cost
linear_sum_assignment(R, C, cost) ==
    LET all == IF Cardinality(R) <= Cardinality(C)
               THEN {{<<r, f[r]>> : r \in R} : f \in Injections(R, C)}
               ELSE {{<<g[c], c>> : c \in C} : g \in Injections(C, R)}
        totals == {SumOver(b, cost) : b \in all}
        least == CHOOSE x \in totals : \A y \in totals : x <= y
    IN  CHOOSE a \in all : SumOver(a, cost) = least

_one_to_one_correct(sc) ==
    LET m == MaxInt(0, MaxOf({sc[p] : p \in DOMAIN sc}))
        rows == DefinitionsOf(sc) \cup {None}
        cols == TermsOf(sc)
        cost == [c \in rows \X cols |-> m - ScoreGet(sc, c)]
        assigned == linear_sum_assignment(rows, cols, cost)
    IN  SumOver(assigned, [c \in assigned |-> ScoreGet(sc, c)])

\* sum(s for s in scores.values())
ManyToManySumAll(sc) == SumOver(DOMAIN sc, sc)

\* line 86: sum(max(s, 0) for s in scores.values())
many_to_many_maximum(sc) == SumOver(DOMAIN sc, [p \in DOMAIN sc |-> MaxInt(sc[p], 0)])

\* the two one-to-one policies the wrong way round
ComputeMaximumScoreSwapped(sc, mult, w) ==
    IF sc = EmptyMap THEN 0
    ELSE IF mult = "ONE_TO_ONE"
         THEN IF w.allow_unreachable_max_scores
              THEN _one_to_one_correct(sc)
              ELSE _one_to_one_simple(sc)
    ELSE many_to_many_maximum(sc)

_compute_maximum_score(sc, mult, w) ==
    IF sc = EmptyMap THEN 0
    ELSE IF mult = "ONE_TO_ONE"
         THEN IF w.allow_unreachable_max_scores
              THEN _one_to_one_simple(sc)
              ELSE _one_to_one_correct(sc)
    ELSE many_to_many_maximum(sc)

\* the (definition, term) pairs an answer selects
AnswerPairs(answers) == {p \in (DOMAIN answers) \X Terms : p[2] \in answers[p[1]]}

\* MatchingQuestion.compute_score
compute_score(answers) ==
    LET hit == AnswerPairs(answers) \cap DOMAIN scores
    IN  SumOver(hit, [p \in hit |-> scores[p]])

\* random.sample(population, n): n different members in some order
Samples(population, n) ==
    {q \in [1..n -> population] : \A i, j \in 1..n : q[i] = q[j] => i = j}

\* every answer: some definitions, each with a non-empty set of terms
AllAnswers == UNION {[S -> (SUBSET Terms) \ {{}}] : S \in SUBSET Definitions}

\* the label the platform shows for an item id
LabelOf(id) ==
    IF id = "d1" THEN "apple" ELSE IF id = "d2" THEN "pear"
    ELSE IF id = "t1" THEN "red" ELSE "green"

\* the question as parsed from the platform
MatchingInit ==
    /\ definitions = [d \in Definitions |-> LabelOf(d)]
    /\ terms = [t \in Terms |-> LabelOf(t)]
    /\ scores \in ScoreTables
    /\ multiplicity \in Multiplicities
    /\ m_call = [op |-> "none"]

\* MatchingQuestion.get_maximum_score
GetMaximumScore(w) ==
    /\ m_call' = [op |-> "get_maximum_score", workarounds |-> w,
                  value |-> _compute_maximum_score(scores, multiplicity, w)]
    /\ UNCHANGED <<definitions, terms, scores, multiplicity>>
    /\ UNCHANGED <<resultVars, clozeVars>>

\* MatchingQuestion.compute_score
ComputeScore(answers) ==
    /\ m_call' = [op |-> "compute_score", answers |-> answers, value |-> compute_score(answers)]
    /\ UNCHANGED <<definitions, terms, scores, multiplicity>>
    /\ UNCHANGED <<resultVars, clozeVars>>

\* lines 270-272: one random term for each chosen definition
RandomAnswerOneToOne(w, sampled) ==
    \E drawn \in Samples(DOMAIN terms, Len(sampled)) :
        LET answers == [d \in {sampled[i] : i \in 1..Len(sampled)} |->
                           {drawn[CHOOSE i \in 1..Len(sampled) : sampled[i] = d]}]
        IN  m_call' = [op |-> "get_random_answer", workarounds |-> w,
                       answers |-> answers, value |-> compute_score(answers)]

\* lines 274-283: m random terms for each chosen definition; the definition
\* at the index force_1 gets at least one (force_1 = None is the index -1 here,
\* which no definition has; randint(0, n) draws from 0..n, both ends included)
RandomAnswerManyToMany(w, sampled) ==
    \E force_1 \in IF w.disallow_empty_answers THEN 0..Len(sampled) ELSE {0 - 1} :
    \E picked \in [1..Len(sampled) -> SUBSET DOMAIN terms] :
        /\ \A i \in 1..Len(sampled) :
               Cardinality(picked[i]) >= (IF force_1 = i - 1 THEN 1 ELSE 0)
        /\ LET chosen == {i \in 1..Len(sampled) : Cardinality(picked[i]) > 0}
               answers == [d \in {sampled[i] : i \in chosen} |->
                              picked[CHOOSE i \in chosen : sampled[i] = d]]
           IN  m_call' = [op |-> "get_random_answer", workarounds |-> w,
                          answers |-> answers, value |-> compute_score(answers)]

\* MatchingQuestion.get_random_answer
GetRandomAnswer(w) ==
    /\ \E n \in (IF w.disallow_empty_answers THEN 1 ELSE 0)..Cardinality(DOMAIN definitions) :
       \E sampled \in Samples(DOMAIN definitions, n) :
           IF multiplicity = "ONE_TO_ONE"
           THEN RandomAnswerOneToOne(w, sampled)
           ELSE RandomAnswerManyToMany(w, sampled)
    /\ UNCHANGED <<definitions, terms, scores, multiplicity>>
    /\ UNCHANGED <<resultVars, clozeVars>>

\* the caller takes the returned value; the next call can start
MatchingReturn ==
    /\ m_call.op # "none"
    /\ m_call' = [op |-> "none"]
    /\ UNCHANGED <<definitions, terms, scores, multiplicity>>
    /\ UNCHANGED <<resultVars, clozeVars>>

MatchingNext ==
    \/ \E w \in MaximumScoreWorkarounds : m_call.op = "none" /\ GetMaximumScore(w)
    \/ \E a \in AllAnswers : m_call.op = "none" /\ ComputeScore(a)
    \/ \E w \in RandomAnswerWorkarounds : m_call.op = "none" /\ GetRandomAnswer(w)
    \/ MatchingReturn

(***************************************************************************)
(* MatchingQuestion.readjust_scores (matching.py 25-30, 289-377).  In a    *)
(* question that is readjusted a score n stands for n quarters of a point, *)
(* so that Decimal(random.randint(a, b)) / Decimal(4) is the drawn integer.*)
(***************************************************************************)
Versions == {<<5, 3>>, <<5, 4>>}

\* v >= w on version tuples
VersionGeq(v, w) == v[1] > w[1] \/ (v[1] = w[1] /\ v[2] >= w[2])

\* what readjust_scores reads from its context argument
ReadjustContexts ==
    [ilias_version : Versions, dont_readjust_matching : BOOLEAN,
     no_remove_on_readjust_matching : BOOLEAN, allow_unreachable_max_scores : BOOLEAN]

\* the draws of random.randint(1, 8) that are followed
PositiveDraws == {1, 8}

\* the draws of random.randint(-8, 8) that are followed
DeltaDraws == {0 - 8, 8}

\* _readjust_score with the drawn integer in place of the random source
_readjust_score(draw, score, enforce_positive) ==
    IF enforce_positive THEN draw ELSE score + draw

\* the actions of the legacy protocol offered on every version
ReadjustActionsAnyVersion(ctx) ==
    IF ~ctx.no_remove_on_readjust_matching THEN {"keep", "adjust", "remove"}
    ELSE {"keep", "adjust"}

\* lines 306-313
readjust_actions(ctx) ==
    IF VersionGeq(ctx.ilias_version, <<5, 4>>) THEN {"keep", "adjust"}
    ELSE IF ~ctx.no_remove_on_readjust_matching THEN {"keep", "adjust", "remove"}
    ELSE {"keep", "adjust"}

RECURSIVE readjust_loop(_, _, _, _)
\* the loop of lines 315-336 from the i-th old pair on: the set of the
\* states it can end in.  log keeps, for each pair, the action that was
\* chosen and whether the score was forced to be positive
readjust_loop(old_scores, i, ctx, acc) ==
    IF i > Len(old_scores) THEN {acc}
    ELSE LET pair == old_scores[i]
             score == scores[pair]
             enforce_positive == _compute_maximum_score(acc.new_scores, multiplicity, ctx) <= 0
             done(action) == Append(acc.log, [pair |-> pair, action |-> action,
                                              enforce_positive |-> action = "adjust" /\ enforce_positive])
         IN  UNION { IF action = "keep"
                     THEN readjust_loop(old_scores, i + 1, ctx,
                              [acc EXCEPT !.new_scores = DictPut(@, pair, score),
                                          !.changes = @ \cup {pair}, !.log = done(action)])
                     ELSE IF action = "adjust"
                     THEN UNION { readjust_loop(old_scores, i + 1, ctx,
                                      [acc EXCEPT !.new_scores = DictPut(@, pair,
                                                      _readjust_score(draw, score, enforce_positive)),
                                                  !.changes = @ \cup {pair}, !.log = done(action)])
                                  : draw \in IF enforce_positive THEN PositiveDraws ELSE DeltaDraws }
                     ELSE readjust_loop(old_scores, i + 1, ctx,
                              [acc EXCEPT !.removed = @ \cup {pair},
                                          !.changes = @ \cup {pair}, !.log = done(action)])
                     : action \in readjust_actions(ctx) }

RECURSIVE add_loop(_, _, _, _)
\* the loop of lines 347-361 with n pairs still to add.  last is the value
\* that the names definition and term have kept from the loop above, which
\* line 354 reads
add_loop(n, last, ctx, acc) ==
    IF n = 0 \/ acc.exception # "none" THEN {acc}
    ELSE IF acc.unused_pairs = {} THEN {[acc EXCEPT !.exception = "IndexError"]}
    ELSE UNION { LET enforce_positive ==
                         _compute_maximum_score(acc.new_scores, multiplicity, ctx) <= 0
                 IN  UNION { LET placed == [acc EXCEPT
                                     !.unused_pairs = @ \ {new_pair},
                                     !.new_scores = DictPut(@, new_pair,
                                                       _readjust_score(draw, 0, enforce_positive)),
                                     !.added = Append(@, [pair |-> new_pair,
                                                          enforce_positive |-> enforce_positive])]
                             IN  IF new_pair \in acc.changes
                                 THEN IF last \notin acc.removed
                                      THEN {[placed EXCEPT !.exception = "KeyError"]}
                                      ELSE add_loop(n - 1, last, ctx,
                                               [placed EXCEPT !.removed = @ \ {last}])
                                 ELSE add_loop(n - 1, last, ctx,
                                          [placed EXCEPT !.changes = @ \cup {new_pair}])
                             : draw \in IF enforce_positive THEN PositiveDraws ELSE DeltaDraws }
                 : new_pair \in acc.unused_pairs }

\* lines 339-345 and the loop after them
add_pairs(old_scores, ctx, acc) ==
    LET all_pairs == (DOMAIN definitions) \X (DOMAIN terms)
        bound == MinInt(Cardinality(acc.unused_pairs), MaxInt(2, Cardinality(DOMAIN scores)))
        last == IF old_scores = <<>> THEN <<>> ELSE old_scores[Len(old_scores)]
    IN  UNION { LET n_to_add == IF acc.new_scores = EmptyMap THEN MaxInt(drawn, 1) ELSE drawn
                    unused_pairs == IF n_to_add > Cardinality(acc.unused_pairs)
                                    THEN all_pairs \ DOMAIN acc.new_scores
                                    ELSE acc.unused_pairs
                IN  add_loop(n_to_add, last, ctx, [acc EXCEPT !.unused_pairs = unused_pairs])
                : drawn \in 0..bound }

\* removed_keys of line 376
removed_keys(removed) == {<<definitions[p[1]], terms[p[2]]>> : p \in removed}

\* MatchingQuestion.readjust_scores: the set of its possible results
readjust_scores(ctx) ==
    IF ctx.dont_readjust_matching
    THEN {[outcome |-> "returned", changed |-> FALSE, removed_keys |-> {}, new_scores |-> scores,
           old_scores |-> <<>>, log |-> <<>>, added |-> <<>>]}
    ELSE LET all_pairs == (DOMAIN definitions) \X (DOMAIN terms)
             start == [new_scores |-> EmptyMap, removed |-> {}, changes |-> {}, log |-> <<>>,
                       unused_pairs |-> all_pairs \ DOMAIN scores, added |-> <<>>,
                       exception |-> "none"]
         IN  UNION { LET looped == readjust_loop(old_scores, 1, ctx, start)
                         ends == IF VersionGeq(ctx.ilias_version, <<5, 4>>) THEN looped
                                 ELSE UNION {add_pairs(old_scores, ctx, acc) : acc \in looped}
                     IN  { IF acc.exception # "none"
                           THEN [outcome |-> acc.exception, changed |-> FALSE, removed_keys |-> {},
                                 new_scores |-> scores, old_scores |-> old_scores,
                                 log |-> acc.log, added |-> acc.added]
                           ELSE [outcome |-> "returned", changed |-> TRUE,
                                 removed_keys |-> removed_keys(acc.removed),
                                 new_scores |-> acc.new_scores, old_scores |-> old_scores,
                                 log |-> acc.log, added |-> acc.added]
                           : acc \in ends }
                     : old_scores \in Samples(DOMAIN scores, Cardinality(DOMAIN scores)) }

ReadjustScores(ctx) ==
    /\ \E r \in readjust_scores(ctx) :
           /\ scores' = r.new_scores
           /\ m_call' = [op |-> "readjust_scores", outcome |-> r.outcome, context |-> ctx,
                         changed |-> r.changed, removed_keys |-> r.removed_keys,
                         before |-> scores, old_scores |-> r.old_scores,
                         log |-> r.log, added |-> r.added]
    /\ UNCHANGED <<definitions, terms, multiplicity>>
    /\ UNCHANGED <<resultVars, clozeVars>>

\* a question with one definition and two terms
SmallQuestion ==
    [definitions |-> [d \in {"d1"} |-> LabelOf(d)], terms |-> [t \in {"t1", "t2"} |-> LabelOf(t)]]

\* the score tables of the small question, in quarters of a point
SmallTables ==
    UNION {[S -> {0 - 4, 4}] : S \in SUBSET ((DOMAIN SmallQuestion.definitions) \X (DOMAIN SmallQuestion.terms))}

\* the question as parsed from the platform
ReadjustInit ==
    /\ definitions = SmallQuestion.definitions
    /\ terms = SmallQuestion.terms
    /\ scores \in SmallTables
    /\ multiplicity \in Multiplicities
    /\ m_call = [op |-> "none"]

ReadjustNext ==
    \E ctx \in ReadjustContexts : m_call.op = "none" /\ ReadjustScores(ctx)

(***************************************************************************)
(* ClozeQuestion (cloze.py).  A gap is a text gap or a select gap with a   *)
(* table of scored options, or a numeric gap with a range and one score.   *)
(***************************************************************************)
NumGaps == 2

T_5 == <<"5">>

T_a == <<"a">>

T_A == <<"A">>

\* a ClozeQuestionTextGap; options in the order they were parsed
TextGap ==
    [type |-> "text", options |-> << <<T_5, 1>>, <<T_a, 2>> >>,
     numeric_lower |-> InvalidDecimal, numeric_upper |-> InvalidDecimal, score |-> 0]

\* a ClozeQuestionSelectGap
SelectGap ==
    [type |-> "select", options |-> << <<T_5, 1>>, <<T_A, 2>> >>,
     numeric_lower |-> InvalidDecimal, numeric_upper |-> InvalidDecimal, score |-> 0]

\* a ClozeQuestionNumericGap with the range [4, 5]
NumericGap ==
    [type |-> "numeric", options |-> <<>>,
     numeric_lower |-> MaybeDecimal(<<"4">>), numeric_upper |-> MaybeDecimal(<<"5">>), score |-> 4]

GapPool == {TextGap, SelectGap, NumericGap}

\* the texts entered into the gaps
AnswerTexts == {T_5, T_a, T_A}

\* the candidates a gap is asked to score: the answers above, numbers at,
\* inside and just outside the bounds of the numeric gap, and texts that
\* are not numbers
CandidateTexts ==
    AnswerTexts \cup
    { <<"4">>, <<"5", ".", "0">>, <<"4", ".", "5">>, <<" ", "5">>, <<"4", "0", "e", "-", "1">>,
      <<"5", ".", "0", "1">>, <<"5", ".", "0", "0", "1">>, <<"3", ".", "9", "9">>,
      <<"-", "5">>, <<"6">>, <<"5", "1", "E", "-", "1">>,
      <<>>, <<"5", ",", "0">>, <<"4", "e">>, W_NaN, W_Infinity, <<"-">> \o W_Infinity }

ClozeComparators == {"ci", "cs"}

\* the workaround flag of the context argument that compute_score_by_indices reads
ClozeWorkarounds == [identical_scoring_ignores_comparator : BOOLEAN]

\* options.get(text, Decimal(0))
OptionsGet(options, text) ==
    IF \E i \in 1..Len(options) : options[i][1] = text
    THEN options[CHOOSE i \in 1..Len(options) : options[i][1] = text][2]
    ELSE 0

\* ClozeQuestionTextGap.get_score
text_get_score(gap, text) ==
    IF comparator = "cs" THEN OptionsGet(gap.options, text)
    ELSE LET hits == {i \in 1..Len(gap.options) : casefold(gap.options[i][1]) = casefold(text)}
         IN  IF hits = {} THEN 0
             ELSE gap.options[CHOOSE i \in hits : \A j \in hits : i <= j][2]

\* ClozeQuestionSelectGap.get_score
select_get_score(gap, text) == OptionsGet(gap.options, text)

\* a <= b on decimals that are not NaN; the comparison is exact
DecimalLeq(a, b) ==
    IF a.kind = "Infinity" THEN a.coef < 0 \/ (b.kind = "Infinity" /\ b.coef > 0)
    ELSE IF b.kind = "Infinity" THEN b.coef > 0
    ELSE LET e == MinInt(a.exp, b.exp) IN Rescaled(a, e) <= Rescaled(b, e)

\* an ordering comparison with a NaN operand signals InvalidOperation
ComparisonSignals(a, b) == a.kind = "NaN" \/ b.kind = "NaN"

\* get_score with the upper bound left out of the range
NumericGetScoreOpenUpper(gap, text) ==
    LET value == MaybeDecimal(text)
    IN  IF ~value.valid \/ value.kind # "finite" THEN 0
        ELSE IF DecimalLeq(gap.numeric_lower, value) /\ ~DecimalLeq(gap.numeric_upper, value)
             THEN gap.score
        ELSE 0

\* ClozeQuestionNumericGap.get_score; both ways of leaving through the
\* except clause return Decimal(0)
numeric_get_score(gap, text) ==
    LET value == MaybeDecimal(text)
    IN  IF ~value.valid THEN 0
        ELSE IF ComparisonSignals(gap.numeric_lower, value) THEN 0
        ELSE IF ~DecimalLeq(gap.numeric_lower, value) THEN 0
        ELSE IF ComparisonSignals(value, gap.numeric_upper) THEN 0
        ELSE IF DecimalLeq(value, gap.numeric_upper) THEN gap.score
        ELSE 0

\* gap.get_score(text) of the gap's class
get_score(gap, text) ==
    IF gap.type = "text" THEN text_get_score(gap, text)
    ELSE IF gap.type = "select" THEN select_get_score(gap, text)
    ELSE numeric_get_score(gap, text)

\* lines 378-382: the text as it is looked up among the given answers
normalized_answer(text, w) ==
    IF ~w.identical_scoring_ignores_comparator /\ comparator = "ci" THEN casefold(text) ELSE text

RECURSIVE score_loop(_, _, _, _, _)
\* the loop of lines 376-387 from the gap index i on; answers holds the gaps
\* in the order of their indices, as get_random_answer fills it
score_loop(answers, i, w, score, given_answers) ==
    IF i \notin DOMAIN answers THEN score
    ELSE IF identical_scoring
         THEN score_loop(answers, i + 1, w, score + get_score(gaps[i], answers[i]), given_answers)
    ELSE IF normalized_answer(answers[i], w) \in given_answers
         THEN score_loop(answers, i + 1, w, score, given_answers)
    ELSE score_loop(answers, i + 1, w, score + get_score(gaps[i], answers[i]),
                    given_answers \cup {normalized_answer(answers[i], w)})

\* ClozeQuestion.compute_score_by_indices
compute_score_by_indices(answers, w) == score_loop(answers, 0, w, 0, {})

\* the question as parsed from the platform
ClozeInit ==
    /\ gaps \in [0..(NumGaps - 1) -> GapPool]
    /\ identical_scoring \in BOOLEAN
    /\ comparator \in ClozeComparators
    /\ c_call = [op |-> "none"]

ComputeScoreByIndices(answers, w) ==
    /\ c_call' = [op |-> "compute_score_by_indices", workarounds |-> w, answers |-> answers,
                  value |-> compute_score_by_indices(answers, w)]
    /\ UNCHANGED <<gaps, identical_scoring, comparator>>
    /\ UNCHANGED <<resultVars, matchingVars>>

\* gaps[i].get_score(text)
GetScore(i, text) ==
    /\ c_call' = [op |-> "get_score", index |-> i, text |-> text,
                  value |-> get_score(gaps[i], text)]
    /\ UNCHANGED <<gaps, identical_scoring, comparator>>
    /\ UNCHANGED <<resultVars, matchingVars>>

\* the caller takes the returned value; the next call can start
ClozeReturn ==
    /\ c_call.op # "none"
    /\ c_call' = [op |-> "none"]
    /\ UNCHANGED <<gaps, identical_scoring, comparator>>
    /\ UNCHANGED <<resultVars, matchingVars>>

ClozeNext ==
    \/ \E a \in [DOMAIN gaps -> AnswerTexts], w \in ClozeWorkarounds :
           c_call.op = "none" /\ ComputeScoreByIndices(a, w)
    \/ \E i \in DOMAIN gaps, text \in CandidateTexts : c_call.op = "none" /\ GetScore(i, text)
    \/ ClozeReturn

(***************************************************************************)
(* The specifications.  Each one runs one component; the variables of the  *)
(* other components stay at their idle values.                             *)
(***************************************************************************)
NoCall == [op |-> "none"]

ResultIdle ==
    /\ properties = [s \in Sides |-> EmptyMap]
    /\ types = [s \in Sides |-> EmptyMap]
    /\ errors = [s \in Sides |-> {}]
    /\ origin = ComparedOrigins
    /\ r_call = NoCall

MatchingIdle ==
    /\ definitions = EmptyMap
    /\ terms = EmptyMap
    /\ scores = EmptyMap
    /\ multiplicity = "ONE_TO_ONE"
    /\ m_call = NoCall

ClozeIdle ==
    /\ gaps = EmptyMap
    /\ identical_scoring = FALSE
    /\ comparator = "cs"
    /\ c_call = NoCall

SpecResultInit == ResultInit /\ MatchingIdle /\ ClozeIdle

\* two Results are filled and compared
SpecResult == SpecResultInit /\ [][ResultNext]_vars

\* two Results are filled with percentages and compared
SpecPercentage == SpecResultInit /\ [][PercentageNext]_vars

SpecStoreInit == StoreInit /\ MatchingIdle /\ ClozeIdle

\* Results are filled, read, rounded, and written to JSON and read back
SpecStore == SpecStoreInit /\ [][StoreNext]_vars

SpecMatchingInit == MatchingInit /\ ResultIdle /\ ClozeIdle

\* a matching question is asked for maximum scores, scores and random answers
SpecMatching == SpecMatchingInit /\ [][MatchingNext]_vars

SpecReadjustInit == ReadjustInit /\ ResultIdle /\ ClozeIdle

\* the scores of a matching question are readjusted
SpecReadjust == SpecReadjustInit /\ [][ReadjustNext]_vars

SpecClozeInit == ClozeInit /\ ResultIdle /\ MatchingIdle

\* a cloze question scores answer sets
SpecCloze == SpecClozeInit /\ [][ClozeNext]_vars

(***************************************************************************)
(* Claims about Result.check_against, checked under SpecResult             *)
(***************************************************************************)
Returned == r_call.op = "check_against" /\ r_call.outcome = "returned"

Raised == r_call.op = "check_against" /\ r_call.outcome = "RuntimeError"

\* the keys of the union of both sides' properties
ComparedKeys == DOMAIN properties["self"] \cup DOMAIN properties["other"]

\* the kind a side declares for a key, None when it declares none
DeclaredKind(s, k) == IF k \in DOMAIN types[s] THEN types[s][k] ELSE None

\* both sides declare a kind for the key and the two kinds differ
KindConflict(k) ==
    /\ DeclaredKind("self", k) # None
    /\ DeclaredKind("other", k) # None
    /\ DeclaredKind("self", k) # DeclaredKind("other", k)

\* "json" is declared for the key on either side, and nothing else is
JsonDeclared(k) == {DeclaredKind("self", k), DeclaredKind("other", k)} \ {None} = {"json"}

\* two texts are JSON for the same value: the same number, or objects with
\* the same members in any order
SameJsonValue(a, b) ==
    /\ json_loads(a).ok /\ json_loads(b).ok
    /\ json_loads(a).kind = json_loads(b).kind
    /\ json_loads(a).num = json_loads(b).num
    /\ {json_loads(a).members[i] : i \in 1..Len(json_loads(a).members)}
         = {json_loads(b).members[i] : i \in 1..Len(json_loads(b).members)}

\* C1: whenever check_against returns, every key of the union of both sides'
\* properties has a row, and the returned verdict is true if and only if every
\* key that is not IGNORED compares equal under its comparator and neither
\* side has a recorded error.
C1_VerdictIffRowsAgreeAndNoErrors ==
    Returned =>
        /\ DOMAIN r_call.rows = ComparedKeys
        /\ \A k \in ComparedKeys :
               r_call.rows[k] = "IGNORED" <=> ignore_key(k, r_call.workarounds)
        /\ r_call.value <=>
               /\ \A k \in ComparedKeys :
                      ~ignore_key(k, r_call.workarounds) =>
                          is_equal(k, r_call.workarounds, value_self(k), value_other(k))
               /\ errors["self"] = {}
               /\ errors["other"] = {}

\* C1 witness: both keys were compared and both rows are OK, the only
\* recorded error is on the other side, and the verdict is false.
C1_Witness ==
    /\ Returned
    /\ DOMAIN r_call.rows = Keys
    /\ \A k \in Keys : r_call.rows[k] = "OK"
    /\ errors["self"] = {}
    /\ errors["other"] # {}
    /\ r_call.value = FALSE

\* C2: check_against aborts with the fatal error exactly when some compared
\* key has a kind declared on both sides and the two kinds differ; with a kind
\* on one side only, or the same kind on both, it returns.
C2_AbortsIffKindsConflict ==
    r_call.op = "check_against" => (Raised <=> \E k \in ComparedKeys : KindConflict(k))

\* C3: for a key with kind "json" declared on either side and no conflicting
\* declaration, two JSON texts for the same value (the same members in a
\* different order) give the row the status OK.
C3_JsonMemberOrderIsOK ==
    Returned =>
        \A k \in ComparedKeys :
            (/\ JsonDeclared(k)
             /\ ~ignore_key(k, r_call.workarounds)
             /\ SameJsonValue(ValueText("self", k), ValueText("other", k)))
                => r_call.rows[k] = "OK"

\* C4: for a json-kind key, a value that is not parseable JSON on either side
\* never makes check_against raise and always gives the row the status FAIL,
\* also when both sides hold the same unparseable text.
C4_UnparseableJsonIsFAIL ==
    r_call.op = "check_against" =>
        \A k \in ComparedKeys :
            (/\ JsonDeclared(k)
             /\ ~ignore_key(k, r_call.workarounds)
             /\ (~json_loads(ValueText("self", k)).ok \/ ~json_loads(ValueText("other", k)).ok))
                => (Returned /\ r_call.rows[k] = "FAIL")

(***************************************************************************)
(* Claims about MatchingQuestion, checked under SpecMatching               *)
(***************************************************************************)
\* the table {(d1,t1): 5, (d1,t2): 3, (d2,t1): 4, (d2,t2): 2}
ExampleOneToOne ==
    [p \in Definitions \X Terms |->
        IF p = <<"d1", "t1">> THEN 5 ELSE IF p = <<"d1", "t2">> THEN 3
        ELSE IF p = <<"d2", "t1">> THEN 4 ELSE 2]

\* the table {(d1,t1): -1, (d1,t2): 3}
ExampleManyToMany ==
    [p \in {<<"d1", "t1">>, <<"d1", "t2">>} |-> IF p = <<"d1", "t1">> THEN 0 - 1 ELSE 3]

\* the sets of scored pairs that use each definition and each term at most once
PartialMatchings(sc) ==
    {P \in SUBSET DOMAIN sc : \A p, q \in P : (p[1] = q[1] \/ p[2] = q[2]) => p = q}

\* the best total of a partial one-to-one matching; the empty one totals 0
BestPartialMatching(sc) ==
    MaxOf({SumOver(P, sc) : P \in PartialMatchings(sc)})

\* for every definition the best of 0 and its pair scores, summed
SimplePolicy(sc) ==
    SumOver(Definitions,
            [d \in Definitions |-> MaxOf({0} \cup {sc[p] : p \in {q \in DOMAIN sc : q[1] = d}})])

\* the sum of the positive scores of the table
SumOfPositiveScores(sc) ==
    LET positive == {p \in DOMAIN sc : sc[p] > 0} IN SumOver(positive, sc)

MaximumReturned == m_call.op = "get_maximum_score"

ScoreReturned == m_call.op \in {"compute_score", "get_random_answer"}

\* C5: in correct mode the one-to-one maximum of a non-empty table is the
\* best total over all partial one-to-one matchings (unmatched definitions and
\* terms count 0), so it is never negative.
C5_CorrectModeIsBestPartialMatching ==
    (/\ MaximumReturned
     /\ multiplicity = "ONE_TO_ONE"
     /\ ~m_call.workarounds.allow_unreachable_max_scores
     /\ scores # EmptyMap)
        => (m_call.value = BestPartialMatching(scores) /\ m_call.value >= 0)

\* C6: for a one-to-one question get_maximum_score returns the simple policy's
\* sum when allow_unreachable_max_scores is set, and the exact assignment's
\* total when it is not.
C6_SimplePolicyExactlyWithFlag ==
    (MaximumReturned /\ multiplicity = "ONE_TO_ONE" /\ scores # EmptyMap) =>
        /\ m_call.workarounds.allow_unreachable_max_scores
               => m_call.value = SimplePolicy(scores)
        /\ ~m_call.workarounds.allow_unreachable_max_scores
               => m_call.value = _one_to_one_correct(scores)

\* C6 witness: with the flag unset the example table gives 7, not the 9 of
\* the simple policy.
C6_Witness ==
    /\ MaximumReturned
    /\ multiplicity = "ONE_TO_ONE"
    /\ ~m_call.workarounds.allow_unreachable_max_scores
    /\ scores = ExampleOneToOne
    /\ m_call.value = 7
    /\ SimplePolicy(scores) = 9

\* C7: the simple one-to-one maximum of a non-empty table is never below the
\* correct one, whichever of the two get_maximum_score returned.
C7_SimpleIsLooserBound ==
    (MaximumReturned /\ multiplicity = "ONE_TO_ONE" /\ scores # EmptyMap) =>
        /\ m_call.workarounds.allow_unreachable_max_scores
               => m_call.value >= _one_to_one_correct(scores)
        /\ ~m_call.workarounds.allow_unreachable_max_scores
               => m_call.value <= _one_to_one_simple(scores)

\* C7 witness: the simple mode returned 9 for the example table, strictly
\* more than the 7 of the correct mode.
C7_Witness ==
    /\ MaximumReturned
    /\ multiplicity = "ONE_TO_ONE"
    /\ m_call.workarounds.allow_unreachable_max_scores
    /\ scores = ExampleOneToOne
    /\ m_call.value = 9
    /\ _one_to_one_correct(scores) = 7

\* C8: for a many-to-many question the maximum is the sum of the positive
\* scores of the table (0 for the empty table), and no answer scores more
\* than the maximum.
C8_ManyToManyMaximum ==
    multiplicity = "MANY_TO_MANY" =>
        /\ MaximumReturned => m_call.value = SumOfPositiveScores(scores)
        /\ ScoreReturned =>
               m_call.value <= _compute_maximum_score(scores, multiplicity,
                                   [allow_unreachable_max_scores |-> FALSE])

\* C8 witness: on the table {(d1,t1): -1, (d1,t2): 3} the answer d1 -> {t2}
\* scores 3, which is the maximum.
C8_Witness ==
    /\ m_call.op = "compute_score"
    /\ multiplicity = "MANY_TO_MANY"
    /\ scores = ExampleManyToMany
    /\ AnswerPairs(m_call.answers) = {<<"d1", "t2">>}
    /\ m_call.value = 3
    /\ _compute_maximum_score(scores, multiplicity, [allow_unreachable_max_scores |-> FALSE]) = 3

\* C9: with disallow_empty_answers set, get_random_answer on a many-to-many
\* question returns an answer that gives at least one definition a term.
C9_RandomAnswerNotEmpty ==
    (/\ m_call.op = "get_random_answer"
     /\ multiplicity = "MANY_TO_MANY"
     /\ m_call.workarounds.disallow_empty_answers)
        => \E d \in DOMAIN m_call.answers : m_call.answers[d] # {}

(***************************************************************************)
(* Claims about ClozeQuestion, checked under SpecCloze                     *)
(***************************************************************************)
\* an earlier gap of the same type was given the same normalized value
RepeatWithinType(answers, i, w) ==
    \E j \in DOMAIN answers :
        /\ j < i
        /\ gaps[j].type = gaps[i].type
        /\ normalized_answer(answers[j], w) = normalized_answer(answers[i], w)

\* the score with repeats counted per gap type
ScorePerGapType(answers, w) ==
    SumOver(DOMAIN answers,
            [i \in DOMAIN answers |->
                IF RepeatWithinType(answers, i, w) THEN 0 ELSE get_score(gaps[i], answers[i])])

\* C10: with identical_scoring false a gap's answer counts 0 exactly when an
\* earlier gap of the same type had the same normalized value; every other
\* answer counts its gap's get_score.
C10_RepeatsCountPerGapType ==
    (c_call.op = "compute_score_by_indices" /\ ~identical_scoring)
        => c_call.value = ScorePerGapType(c_call.answers, c_call.workarounds)

\* the candidate is a number v with lower <= v <= upper, as exact values
WithinRange(gap, text) ==
    LET v == MaybeDecimal(text)
        e == MinInt(v.exp, MinInt(gap.numeric_lower.exp, gap.numeric_upper.exp))
    IN  /\ v.valid
        /\ v.kind = "finite"
        /\ gap.numeric_lower.coef * Pow10(gap.numeric_lower.exp - e) <= v.coef * Pow10(v.exp - e)
        /\ v.coef * Pow10(v.exp - e) <= gap.numeric_upper.coef * Pow10(gap.numeric_upper.exp - e)

\* C11: a numeric gap scores its flat score for every candidate that is a
\* number within [lower, upper], both bounds included, and 0 for every other
\* candidate: a number outside the range however close, and any text that
\* is not a number; get_score always returns.
C11_NumericGapScoresClosedRange ==
    (c_call.op = "get_score" /\ gaps[c_call.index].type = "numeric")
        => c_call.value = IF WithinRange(gaps[c_call.index], c_call.text)
                          THEN gaps[c_call.index].score ELSE 0

\* the upper bound itself was scored and got the full score
C11_Witness ==
    /\ c_call.op = "get_score"
    /\ gaps[c_call.index].type = "numeric"
    /\ c_call.text = <<"5", ".", "0">>
    /\ MaybeDecimal(c_call.text).coef = 50
    /\ c_call.value = 4

(***************************************************************************)
(* Claims about the comparison of percentages, checked under               *)
(* SpecPercentage                                                          *)
(***************************************************************************)
\* the key begins with one of the configured key prefixes
HasPercentagePrefix(k) ==
    Len(k) >= 2 /\ SubSeq(k, 1, 2) \in {K_STATISTICS, K_RESULTS}

\* both texts are finite decimals a and b with |a - b| <= 0.01
WithinTolerance(a, b) ==
    LET da == MaybeDecimal(a)
        db == MaybeDecimal(b)
        e == MinInt(da.exp, db.exp)
        diff == AbsInt(da.coef * Pow10(da.exp - e) - db.coef * Pow10(db.exp - e))
    IN  /\ da.valid /\ da.kind = "finite"
        /\ db.valid /\ db.kind = "finite"
        /\ \/ diff = 0
           \/ e < 0 /\ diff * Pow10(e - MinInt(e, 0 - 2)) <= Pow10((0 - 2) - MinInt(e, 0 - 2))

\* the key is not ignored under the workarounds of the call
Compared(k) == ~(k[1] = "results_tab" /\ r_call.workarounds.ignore_wrong_results_in_results_tab)

\* C12: with inaccurate_percentage_rounding set, every key that begins with
\* ("statistics_tab", "percentage_reached") or ("results_tab",
\* "percentage_reached"), whatever parts follow, is compared with the
\* tolerance comparator; every other key, and every key with the flag unset,
\* is compared by exact string equality.
C12_PrefixKeysUseTolerance ==
    Returned =>
        \A k \in ComparedKeys :
            Compared(k) =>
                (r_call.rows[k] = "OK" <=>
                    IF r_call.workarounds.inaccurate_percentage_rounding /\ HasPercentagePrefix(k)
                    THEN WithinTolerance(ValueText("self", k), ValueText("other", k))
                    ELSE ValueText("self", k) = ValueText("other", k))

\* the key is compared with the tolerance comparator by the call
ToleranceCompared(k) ==
    /\ r_call.workarounds.inaccurate_percentage_rounding
    /\ k \in {K_STATISTICS, K_RESULTS}
    /\ Compared(k)

\* C13: a row compared with the tolerance comparator is OK exactly when both
\* values are decimals a and b with |a - b| <= 0.01, and FAIL otherwise (a
\* value that is no number, a key missing on one side); the comparator
\* raises no error.
C13_ToleranceRowIsWithinEps ==
    r_call.op = "check_against" =>
        /\ r_call.outcome # "Overflow"
        /\ Returned =>
              \A k \in ComparedKeys :
                  ToleranceCompared(k) =>
                      r_call.rows[k] = IF WithinTolerance(ValueText("self", k), ValueText("other", k))
                                       THEN "OK" ELSE "FAIL"

\* C14: a key whose first part is "results_tab" has the status IGNORED when
\* ignore_wrong_results_in_results_tab is set, whatever its two values are,
\* and the verdict is the one of the other keys and the errors; with the flag
\* unset no key is ignored.
C14_IgnoredKeysNeverFailTheVerdict ==
    Returned =>
        /\ \A k \in ComparedKeys : r_call.rows[k] = "IGNORED" <=> ~Compared(k)
        /\ r_call.value <=>
              /\ \A k \in ComparedKeys : Compared(k) => r_call.rows[k] = "OK"
              /\ errors["self"] = {} /\ errors["other"] = {}

\* an ignored key with a value missing on one side, and a verdict of true
C14_Witness ==
    /\ Returned
    /\ r_call.workarounds.ignore_wrong_results_in_results_tab
    /\ K_RESULTS \in DOMAIN properties["self"]
    /\ K_RESULTS \notin DOMAIN properties["other"]
    /\ K_RESULTS_USER \in DOMAIN properties["self"] \cap DOMAIN properties["other"]
    /\ properties["self"][K_RESULTS_USER] # properties["other"][K_RESULTS_USER]
    /\ r_call.rows[K_RESULTS] = "IGNORED"
    /\ r_call.rows[K_RESULTS_USER] = "IGNORED"
    /\ r_call.value

(***************************************************************************)
(* Claims about Result as a store, checked under SpecStore                 *)
(***************************************************************************)
\* the string form of a value argument: a str is itself, a Decimal is
\* written in plain notation, or with an exponent when it has one
StringForm(value) ==
    IF value = Dec(125, 0 - 1) THEN <<"1", "2", ".", "5">>
    ELSE IF value = Dec(5, 1) THEN <<"5", "E", "+", "1">>
    ELSE value.text

\* the step is a successful add of one new key, stored in its string form
AddStored ==
    \E s \in Sides, k \in StoreKeys : \E v \in StoreArgsOf(k) :
        /\ k \notin DOMAIN properties[s]
        /\ properties' = [properties EXCEPT ![s] = DictPut(@, k, StringForm(v))]
        /\ \A t \in Sides : \A j \in DOMAIN types[t] : j \in DOMAIN types'[t] /\ types'[t][j] = types[t][j]

\* the step is a successful update that replaces the value of one present key
UpdateStored ==
    \E s \in Sides, k \in StoreKeys : \E v \in StoreArgsOf(k) :
        /\ k \in DOMAIN properties[s]
        /\ properties' = [properties EXCEPT ![s] = DictPut(@, k, StringForm(v))]
        /\ types' = types

\* C15: add on a key that is present and update on a key that is absent
\* fail and leave properties and types as they were; a successful add stores
\* the string form of the value under the new key, get returns what is
\* stored under a key, and a successful update replaces the value of that
\* one key only.
C15_AddUpdateGet ==
    [][ /\ (r_call'.op \in {"add", "update"} /\ r_call'.outcome = "AssertionError")
            => (properties' = properties /\ types' = types)
        /\ (r_call'.op = "add" /\ r_call'.outcome = "ok") => AddStored
        /\ (r_call'.op = "update" /\ r_call'.outcome = "ok") => UpdateStored
        /\ r_call'.op = "get"
            => /\ properties' = properties
               /\ IF r_call'.key \in DOMAIN properties[r_call'.side]
                  THEN ~r_call'.is_none /\ r_call'.value = properties[r_call'.side][r_call'.key]
                  ELSE r_call'.is_none
      ]_vars

\* a Decimal was added and get returned its string form
C15_Witness ==
    /\ r_call.op = "get"
    /\ r_call.key = K_SCORE
    /\ ~r_call.is_none
    /\ r_call.value = <<"1", "2", ".", "5">>
    /\ properties[r_call.side][K_SCORE] = r_call.value

\* C16: Result(from_json=r.to_json()) succeeds for every Result r, also one
\* made without an origin, and gives a Result with the origin, properties,
\* types and errors of r.
C16_JsonRoundTrip ==
    /\ r_call.op = "to_json" => r_call.outcome = "ok"
    /\ r_call.op = "from_json" =>
          /\ origin[r_call.side] = origin[r_call.source]
          /\ properties[r_call.side] = properties[r_call.source]
          /\ types[r_call.side] = types[r_call.source]
          /\ errors[r_call.side] = errors[r_call.source]

\* a <= b on finite decimals, as exact values
ExactLeq(a, b) ==
    LET e == MinInt(a.exp, b.exp) IN a.coef * Pow10(a.exp - e) <= b.coef * Pow10(b.exp - e)

\* b - a < 0.01 on finite decimals, as exact values
LessThanCentAbove(a, b) ==
    LET e == MinInt(MinInt(a.exp, b.exp), 0 - 2)
    IN  b.coef * Pow10(b.exp - e) - a.coef * Pow10(a.exp - e) < Pow10((0 - 2) - e)

\* C17: for a valid x round_up_to_2_digits returns a valid value with at
\* most 2 fractional digits that is >= x and less than 0.01 above x; for an
\* invalid x it returns the invalid state; it raises nothing.
C17_RoundUpNeverRoundsDown ==
    r_call.op = "round_up_to_2_digits" =>
        /\ r_call.outcome = "ok"
        /\ r_call.arg.valid =>
              /\ r_call.value.valid
              /\ r_call.value.kind = "finite"
              /\ r_call.value.exp >= 0 - 2
              /\ r_call.arg.kind = "finite"
              /\ ExactLeq(r_call.arg, r_call.value)
              /\ LessThanCentAbove(r_call.arg, r_call.value)
        /\ ~r_call.arg.valid => ~r_call.value.valid

\* the scores after the call of the pairs that were decided before the
\* i-th pair of the shuffled order
DecidedBefore(i) ==
    LET decided == {m_call.log[j].pair : j \in 1..(i - 1)} \cap DOMAIN scores
    IN  [p \in decided |-> scores[p]]

\* the i-th decision was to keep the pair, or to adjust it within the
\* ranges of _readjust_score; scores count quarters of a point
KeptOrAdjusted(i) ==
    LET entry == m_call.log[i]
        pair == entry.pair
        forced == _compute_maximum_score(DecidedBefore(i), multiplicity, m_call.context) <= 0
    IN  /\ entry.action \in {"keep", "adjust"}
        /\ pair \in DOMAIN scores
        /\ entry.action = "keep" => scores[pair] = m_call.before[pair]
        /\ entry.action = "adjust" =>
              IF forced THEN scores[pair] \in 1..8
              ELSE scores[pair] - m_call.before[pair] \in (0 - 8)..8

\* C18: on version >= (5,4) readjust_scores keeps or adjusts every pair and
\* adds none: the scored pairs are those of before, no key is reported as
\* removed, a kept pair has its old score, an adjusted pair has its old
\* score plus a delta of -2 to 2 points or, when the maximum of the pairs
\* decided so far is <= 0, a score of 0.25 to 2 points.  With
\* dont_readjust_matching it returns (False, []) and changes no score.
C18_Version54KeepsOrAdjusts ==
    m_call.op = "readjust_scores" =>
        IF m_call.context.dont_readjust_matching
        THEN /\ m_call.outcome = "returned"
             /\ ~m_call.changed
             /\ m_call.removed_keys = {}
             /\ scores = m_call.before
        ELSE VersionGeq(m_call.context.ilias_version, <<5, 4>>) =>
                /\ m_call.outcome = "returned"
                /\ m_call.changed
                /\ m_call.removed_keys = {}
                /\ DOMAIN scores = DOMAIN m_call.before
                /\ m_call.added = <<>>
                /\ {m_call.log[i].pair : i \in DOMAIN m_call.log} = DOMAIN m_call.before
                /\ \A i \in DOMAIN m_call.log : KeptOrAdjusted(i)

\* on version 5.4 a negative pair was kept and the pair after it was
\* adjusted to a forced positive score
C18_Witness ==
    /\ m_call.op = "readjust_scores"
    /\ ~m_call.context.dont_readjust_matching
    /\ VersionGeq(m_call.context.ilias_version, <<5, 4>>)
    /\ Len(m_call.log) = 2
    /\ m_call.log[1].action = "keep"
    /\ m_call.before[m_call.log[1].pair] < 0
    /\ m_call.log[2].action = "adjust"
    /\ m_call.before[m_call.log[2].pair] < 0
    /\ scores[m_call.log[2].pair] = 8

\* the label pairs of the pairs that the call took out of the score table
LabelsOfDropped ==
    {<<definitions[p[1]], terms[p[2]]>> : p \in (DOMAIN m_call.before) \ (DOMAIN scores)}

\* C19: under the legacy protocol with removal enabled readjust_scores
\* returns, and the removed keys it returns are exactly the label pairs of
\* the pairs that were in the score table before the call and are not in it
\* after the call.
C19_RemovedKeysAreTheDroppedPairs ==
    (/\ m_call.op = "readjust_scores"
     /\ ~m_call.context.dont_readjust_matching
     /\ ~VersionGeq(m_call.context.ilias_version, <<5, 4>>)
     /\ ~m_call.context.no_remove_on_readjust_matching)
    => /\ m_call.outcome = "returned"
       /\ m_call.removed_keys = LabelsOfDropped

\* C20: if the maximum score of the question was strictly positive before
\* readjust_scores, then after the call the score table is not empty, its
\* pairs are made of known definition and term ids, and its maximum score
\* is still strictly positive, for either multiplicity and either policy.
C20_ReadjustKeepsMaximumPositive ==
    (/\ m_call.op = "readjust_scores"
     /\ _compute_maximum_score(m_call.before, multiplicity, m_call.context) > 0)
    => /\ scores # EmptyMap
       /\ DOMAIN scores \subseteq (DOMAIN definitions) \X (DOMAIN terms)
       /\ _compute_maximum_score(scores, multiplicity, m_call.context) > 0

\* C21: after any sequence of add, update and remove calls every key with
\* a declared kind in types is also a key of properties, on either Result:
\* remove leaves no declared kind behind.
C21_DeclaredKindsAreOfStoredKeys ==
    \A s \in Sides : DOMAIN types[s] \subseteq DOMAIN properties[s]

====
